---- MODULE Spec2Model ----
(***************************************************************************)
(* The scan pipeline of auto-job-scraper: run_daily_scan (scheduler.py),   *)
(* scrape_company (scraper.py), analyze_job_match (analyzer.py) and the    *)
(* JobListing / Company / UserProfile tables (models.py).                  *)
(*                                                                         *)
(* Python strings are sequences of one-character strings, so that len(),   *)
(* slicing, `in` and concatenation are computed.  A JSON value (what       *)
(* json.loads returns, what a column of a row holds) is a tagged record    *)
(* [t |-> type, v |-> payload].                                            *)
(***************************************************************************)
EXTENDS Integers, Sequences, FiniteSets, Bags, TLC

\* ----------------------------------------------------------------- bounds
\* Companies in the store.
NumCompanies == 2
\* Anchors on one career page (length of the DOM's anchor list).
MaxLinks == 2
\* Distinct job urls the web can serve.
NumUrls == 2
\* Padding characters on either side of the keyword of a probed href.
MaxPad == 6
\* Longest anchor text probed by the filter specification.
MaxText == 12

\* ------------------------------------------------------ program constants
\* l.href.length > 10 (JavaScript, in page.evaluate).
HrefMinLen == 10
\* len(link['text']) > 10.
TextMinLen == 10
\* link['text'][:200].
TitleMax == 200

\* ---------------------------------------------------------------- strings
None == "None"

Pad(n) == [i \in 1..n |-> "x"]

\* str[:n]
Take(s, n) == SubSeq(s, 1, IF Len(s) < n THEN Len(s) ELSE n)

\* sub in s
Contains(s, sub) ==
    \E i \in 0..(Len(s) - Len(sub)) : SubSeq(s, i + 1, i + Len(sub)) = sub

StartsWith(s, p) == Len(s) >= Len(p) /\ SubSeq(s, 1, Len(p)) = p

S_job == <<"j", "o", "b">>
S_career == <<"c", "a", "r", "e", "e", "r">>
S_Error == <<"E", "r", "r", "o", "r", ":", " ">>
S_ErrorColon == <<"E", "r", "r", "o", "r", ":">>
S_ApiKeyMissing ==
    <<"A", "P", "I", " ", "K", "e", "y", " ", "m", "i", "s", "s", "i", "n", "g">>
S_base == <<"h", "t", "t", "p", "s", ":", "/", "/", "x", "/">>
Digits == <<"1", "2", "3", "4", "5", "6", "7", "8", "9">>

\* ------------------------------------------------------------ JSON values
JNull == [t |-> "null", v |-> 0]
Absent == [t |-> "absent", v |-> 0]
JInt(n) == [t |-> "int", v |-> n]
JStr(s) == [t |-> "str", v |-> s]
JList(l) == [t |-> "list", v |-> l]
\* A JSON object, by the three keys the pipeline reads; Absent: no such key.
JObj(ms, rs, sk) ==
    [t |-> "obj", v |-> [match_score |-> ms, reasoning |-> rs, missing_skills |-> sk]]

\* --------------------------------------------------- the language model
S_timeout == <<"t", "i", "m", "e", "o", "u", "t">>
S_decode == <<"E", "x", "p", "e", "c", "t", "i", "n", "g">>
S_high == <<"h", "i", "g", "h">>
S_ok == <<"o", "k">>
S_sql == <<"S", "Q", "L">>

\* What `await client.chat.completions.create(...)` followed by reading
\* response.choices[0].message.content can give: the call raises (cause:
\* str(e)), the content is text that json.loads rejects, or the content is
\* the JSON text of `value`.
ApiRaises(c) == [kind |-> "raise", cause |-> c, value |-> JNull]
NotJson == [kind |-> "text", cause |-> S_decode, value |-> JNull]
JsonText(j) == [kind |-> "json", cause |-> <<>>, value |-> j]

GoodMatch == JObj(JInt(85), JStr(S_ok), JList(<<JStr(S_sql)>>))
\* The replies drawn in the pipeline specifications.
ModelReplies ==
    { ApiRaises(S_timeout),
      JsonText(JList(<<>>)),
      JsonText(GoodMatch),
      JsonText(JObj(JInt(150), JStr(S_ok), JList(<<>>))),
      JsonText(JObj(JStr(S_high), Absent, Absent)) }

\* The replies drawn in the analyzer specification.
ProbeScores ==
    {Absent, JNull, JInt(-5), JInt(0), JInt(85), JInt(100), JInt(101), JStr(S_high)}
ProbeReasonings == {Absent, JStr(S_ok), JInt(5)}
ProbeSkills == {Absent, JList(<<>>), JList(<<JStr(S_sql)>>), JStr(S_sql)}
ProbeReplies ==
    {ApiRaises(S_timeout), ApiRaises(<<>>), NotJson}
    \cup {JsonText(j) : j \in {JNull, JInt(85), JStr(S_ok), JList(<<>>), JList(<<JInt(85)>>)}}
    \cup {JsonText(JObj(ms, rs, sk)) :
            ms \in ProbeScores, rs \in ProbeReasonings, sk \in ProbeSkills}

\* A get_client that hands out a client without a credential.
get_client_any(c, key) == "client"

\* get_client(): the module-level _client after the call.
get_client(c, key) == IF c = None /\ key THEN "client" ELSE c

\* json.loads(content)
json_loads(reply) ==
    IF reply.kind = "json"
    THEN [raised |-> FALSE, value |-> reply.value, cause |-> <<>>]
    ELSE [raised |-> TRUE, value |-> JNull, cause |-> reply.cause]

\* A fallback whose reasoning is the bare cause.
ErrorResult_bare(cause) == JObj(JInt(0), JStr(cause), JList(<<>>))

ErrorResult(cause) == JObj(JInt(0), JStr(S_Error \o cause), JList(<<>>))
KeyMissingResult == JObj(JInt(0), JStr(S_ApiKeyMissing), JList(<<>>))

\* analyze_job_match with client `cl` (get_client's result) and the outcome
\* `reply` of the model call; the call is made only when cl is a client.
analyze_job_match(cl, reply) ==
    IF cl = None THEN KeyMissingResult
    ELSE IF reply.kind = "raise" THEN ErrorResult(reply.cause)
    ELSE LET loaded == json_loads(reply)
         IN  IF loaded.raised THEN ErrorResult(loaded.cause) ELSE loaded.value

\* ------------------------------------------------------- link extraction
Anchor(text, href) == [text |-> text, href |-> href]

\* An extraction that also lets an href of exactly HrefMinLen through.
JsFilter_ge(dom) == SelectSeq(dom, LAMBDA l : Len(l.href) >= HrefMinLen)

\* page.evaluate: every <a> as {text, href}, filtered by href.length > 10.
JsFilter(dom) == SelectSeq(dom, LAMBDA l : Len(l.href) > HrefMinLen)

\* "job" in href or "career" in href or len(text) > 10
LooksLikeJob(l) ==
    \/ Contains(l.href, S_job)
    \/ Contains(l.href, S_career)
    \/ Len(l.text) > TextMinLen

\* The anchors of a DOM that reach deduplication, in order.
Candidates(dom) == SelectSeq(JsFilter(dom), LooksLikeJob)

\* ------------------------------------------------------------------ state
Runs == {"scheduled", "manual"}
Companies == 1..NumCompanies
Backends == {"postgresql", "sqlite"}

S_role == <<"E", "n", "g", "i", "n", "e", "e", "r", " ", "I", "I">>
\* {text: "Engineer II", href: "https://x/job/1"}, {text: "a", href: "https://x/job/2"}, ...
JobAnchor(i) ==
    Anchor(IF i = 1 THEN S_role ELSE <<"a">>, S_base \o S_job \o <<"/", Digits[i]>>)
\* {text: "About", href: "https://x/about"}
AboutAnchor == Anchor(<<"A", "b", "o", "u", "t">>, S_base \o <<"a", "b", "o", "u", "t">>)
\* {text: "Engineer II", href: "/job"}
ShortAnchor == Anchor(S_role, <<"/">> \o S_job)
WebAnchors == {JobAnchor(i) : i \in 1..NumUrls} \cup {AboutAnchor, ShortAnchor}
\* The anchor lists a career page can show.
Doms == UNION {[1..n -> WebAnchors] : n \in 0..MaxLinks}
\* document.body.innerText of a job page.
PageText == "job description"
\* A career page that shows any of Doms, and one that always shows `dom`.
Changing == [static |-> FALSE, dom |-> <<>>]
Static(dom) == [static |-> TRUE, dom |-> dom]
\* What document.querySelectorAll('a') can give on a visit of page `w`.
Shows(w) == IF w.static THEN {w.dom} ELSE Doms

VARIABLES
    backend,      \* settings.DATABASE_URL: which engine database.py builds
    api_key,      \* settings.OPENROUTER_API_KEY is set
    client,       \* analyzer._client
    profile,      \* the UserProfile table holds a row
    company,      \* the Company table: id -> row; last_scraped_at counts the
                  \* updates (0: never scraped), each newer than the one before
    jobs,         \* the JobListing table: the committed rows, as a bag (ids left out)
    scan_now,     \* when POST /scan-now/ is called: "never", "after" the scheduled
                  \* run ended, or at "any" time
    web,          \* company -> its career page: static with one anchor list, or changing
    pc,           \* run -> where that run_daily_scan coroutine stands
    orch_session, \* run -> run_daily_scan's `with Session(engine)`
    companies,    \* run -> the companies the for loop has not reached yet
    current,      \* run -> the company being scraped (0: none)
    scanned,      \* run -> the companies scrape_company was called for, in order
                  \* (history)
    browser,      \* run -> the browser of the current scrape_company
    open_pages,   \* run -> detail pages opened and not closed in this scan
    session,      \* run -> scrape_company's Session(engine)
    user_profile, \* run -> the profile scrape_company read ("empty": the stand-in)
    job_links,    \* run -> the links the for loop has not reached yet
    link,         \* run -> the link being processed
    pending,      \* run -> rows session.add()ed and not flushed
    flushed,      \* run -> rows INSERTed in the open transaction, uncommitted
    new_jobs,     \* run -> urls of the listings staged by this scan
    skipped,      \* run -> the links of this scan whose processing raised, with the
                  \* stage that raised (history)
    persisted,    \* run -> urls of the rows this run committed (history)
    probe,        \* input of the pure-function specifications
    answer        \* their result: <<>> before the call, <<result>> after

envVars == <<backend, api_key, profile, scan_now, web>>
pureVars == <<probe, answer>>
scanVars == <<browser, open_pages, session, user_profile, job_links, link,
              pending, flushed, new_jobs, skipped>>
vars == <<backend, api_key, client, profile, company, jobs, scan_now, web, pc, orch_session,
          companies, current, scanned, browser, open_pages, session, user_profile, job_links,
          link, pending, flushed, new_jobs, skipped, persisted, probe, answer>>

NoLink == Anchor(<<>>, <<>>)

InitRuns ==
    /\ client = None
    /\ jobs = EmptyBag
    /\ pc = [r \in Runs |-> "idle"]
    /\ orch_session = [r \in Runs |-> "none"]
    /\ companies = [r \in Runs |-> <<>>]
    /\ scanned = [r \in Runs |-> <<>>]
    /\ current = [r \in Runs |-> 0]
    /\ browser = [r \in Runs |-> "none"]
    /\ open_pages = [r \in Runs |-> 0]
    /\ session = [r \in Runs |-> "none"]
    /\ user_profile = [r \in Runs |-> None]
    /\ job_links = [r \in Runs |-> <<>>]
    /\ link = [r \in Runs |-> NoLink]
    /\ pending = [r \in Runs |-> <<>>]
    /\ flushed = [r \in Runs |-> <<>>]
    /\ new_jobs = [r \in Runs |-> <<>>]
    /\ skipped = [r \in Runs |-> {}]
    /\ persisted = [r \in Runs |-> {}]

\* One run_daily_scan, the scheduled one, over career pages that change.
Init ==
    /\ backend \in Backends
    /\ api_key \in BOOLEAN
    /\ profile \in BOOLEAN
    /\ company \in [Companies -> [is_active : BOOLEAN, last_scraped_at : {0}]]
    /\ scan_now = "never"
    /\ web = [c \in Companies |-> Changing]
    /\ InitRuns
    /\ probe = None
    /\ answer = <<>>

\* The career pages that list one or two job links.
JobAnchors == {JobAnchor(i) : i \in 1..NumUrls}
JobDoms == {<<a>> : a \in JobAnchors} \cup {<<a, b>> : a, b \in JobAnchors}

\* One active company whose career page does not change.
InitOneCompany(doms) ==
    /\ backend \in Backends
    /\ api_key \in BOOLEAN
    /\ profile = TRUE
    /\ company = [c \in Companies |-> [is_active |-> c = 1, last_scraped_at |-> 0]]
    /\ \E dom \in doms : web = [c \in Companies |-> Static(dom)]
    /\ InitRuns
    /\ probe = None
    /\ answer = <<>>

\* POST /scan-now/ after the scheduled run ended: the company is scanned twice.
InitRescan == InitOneCompany(Doms) /\ scan_now = "after"

\* POST /scan-now/ at any time: the two runs overlap on the company.
InitOverlap == InitOneCompany(JobDoms) /\ scan_now = "any"

\* -------------------------------------------------------------- the store
Urls(rows) == {rows[i].url : i \in DOMAIN rows}
\* The urls of the committed rows.
JobUrls == {row.url : row \in BagToSet(jobs)}
\* The rows of a sequence, as a bag.
RECURSIVE RowBag(_)
RowBag(rows) ==
    IF rows = <<>> THEN EmptyBag ELSE SetToBag({Head(rows)}) (+) RowBag(Tail(rows))

\* A commit that replaces the table by the new rows.
InsertRows_replace(table, rows) == RowBag(rows)

\* The table after the commit of the INSERTs of `rows`: session.add(job)
\* only ever adds rows, the rows there are stay as they are.
InsertRows(table, rows) == table (+) RowBag(rows)

\* select(Company).where(Company.is_active == True), by id.
ActiveCompanies ==
    SelectSeq([c \in Companies |-> c], LAMBDA c : company[c].is_active)

\* A session that sees the rows of its own transaction only.
Visible_own(r) == Urls(flushed[r])

\* The rows a statement of run r's session sees: the committed ones and
\* those its own transaction inserted.
Visible(r) == JobUrls \cup Urls(flushed[r])

\* A lookup without the autoflush: it sees the committed rows only.
SeenAfterFlush_committed(r) == JobUrls

\* The urls the dedup SELECT of run r sees: session.exec() first flushes the
\* rows added to the session, so it sees them next to the committed ones.
SeenAfterFlush(r) == Visible(r) \cup Urls(pending[r])

\* A lookup that never finds the row.
FindJobByUrl_none(seen, href) == FALSE

\* select(JobListing).where(JobListing.url == href).first() is a row, among
\* the rows with the urls `seen`.
FindJobByUrl(seen, href) == href \in seen

\* A url column without the unique constraint.
UniqueViolation_off(url, urls) == FALSE

\* url: str = Field(unique=True)
UniqueViolation(url, urls) == url \in urls

\* match_score: Optional[int]: PostgreSQL takes an integer or NULL and
\* rejects the rest; SQLite's column affinity also stores a string.
ColumnAccepts(row) ==
    \/ row.match_score.t \in {"int", "null"}
    \/ backend = "sqlite" /\ row.match_score.t = "str"

\* The urls other open transactions inserted and have not committed.
Uncommitted(r) == UNION {Urls(flushed[o]) : o \in Runs \ {r}}

\* One INSERT of run r's session; `before`: the urls its statement sees.
\*   locked:    SQLite, another connection holds the write lock: after the
\*              busy timeout, OperationalError
\*   data:      DataError (a value the column does not take)
\*   block:     PostgreSQL, the url was inserted by a transaction still
\*              open: the statement waits for that transaction to end
\*   integrity: IntegrityError (unique url)
InsertOutcome(r, row, before) ==
    IF backend = "sqlite" /\ \E o \in Runs \ {r} : flushed[o] # <<>> THEN "locked"
    ELSE IF ~ColumnAccepts(row) THEN "data"
    ELSE IF UniqueViolation(row.url, before) THEN "integrity"
    ELSE IF backend = "postgresql" /\ UniqueViolation(row.url, Uncommitted(r)) THEN "block"
    ELSE "ok"

RECURSIVE FlushFrom(_, _, _)
FlushFrom(r, rows, before) ==
    IF rows = <<>> THEN "ok"
    ELSE LET o == InsertOutcome(r, Head(rows), before)
         IN  IF o # "ok" THEN o
             ELSE FlushFrom(r, Tail(rows), before \cup {Head(rows).url})

\* session.flush(): the pending rows are INSERTed in order; the first
\* failure ends it.
FlushOutcome(r) == FlushFrom(r, pending[r], Visible(r))

\* ---------------------------------------------------------- the event loop
\* Both runs are coroutines of one event loop: a coroutine runs until its
\* next await.  These are the places where a run is not at an await.
Running(r) ==
    \/ pc[r] \in {"loop", "link", "commit"}
    \/ pc[r] = "analyze" /\ get_client(client, api_key) = None

MayStep(r) == \A o \in Runs \ {r} : ~Running(o)

\* An exception of scrape_company that run_daily_scan swallows.
Escapes_swallowed(r) ==
    /\ pc' = [pc EXCEPT ![r] = "loop"]
    /\ UNCHANGED orch_session

\* An exception leaves run_daily_scan: its `with Session(engine)` closes.
Escapes(r) ==
    /\ pc' = [pc EXCEPT ![r] = "crashed"]
    /\ orch_session' = [orch_session EXCEPT ![r] = "closed"]

\* scrape_company is left (return or exception): its locals are gone.
Returns(r) ==
    /\ user_profile' = [user_profile EXCEPT ![r] = None]
    /\ job_links' = [job_links EXCEPT ![r] = <<>>]
    /\ link' = [link EXCEPT ![r] = NoLink]
    /\ new_jobs' = [new_jobs EXCEPT ![r] = <<>>]
    /\ skipped' = [skipped EXCEPT ![r] = {}]

\* The per-link `except Exception`: link skipped, on to the next.
SkipLink(r, stage) ==
    /\ skipped' = [skipped EXCEPT ![r] = @ \cup {[url |-> link[r].href, at |-> stage]}]
    /\ link' = [link EXCEPT ![r] = NoLink]
    /\ pc' = [pc EXCEPT ![r] = "link"]

\* JobListing(title=..., url=..., company_id=..., ...); .get on a value that
\* is not a dict raises AttributeError (handled by the caller).
Get(result, key, default) ==
    IF result.v[key] = Absent THEN default ELSE result.v[key]

JobListing(l, c, text, result) ==
    [ title |-> Take(l.text, TitleMax),
      url |-> l.href,
      company_id |-> c,
      description_text |-> text,
      match_score |-> Get(result, "match_score", JInt(0)),
      match_reasoning |-> Get(result, "reasoning", JStr(<<>>)),
      missing_skills |-> Get(result, "missing_skills", JList(<<>>)) ]

\* ------------------------------------------------------------ run_daily_scan
\* run_daily_scan starts (the 24 h job, or POST /scan-now/): opens its
\* session and reads the active companies.
Triggered(r) ==
    \/ r = "scheduled"
    \/ scan_now = "any"
    \/ scan_now = "after" /\ pc["scheduled"] \in {"done", "crashed"}

StartRun(r) ==
    /\ pc[r] = "idle"
    /\ Triggered(r)
    /\ MayStep(r)
    /\ pc' = [pc EXCEPT ![r] = "loop"]
    /\ orch_session' = [orch_session EXCEPT ![r] = "open"]
    /\ companies' = [companies EXCEPT ![r] = ActiveCompanies]
    /\ UNCHANGED <<envVars, pureVars, company, scanVars, client, jobs, current, scanned, persisted>>

\* for company in companies: await scrape_company(company); after the last
\* one the session closes and the run is complete.
NextCompany(r) ==
    /\ pc[r] = "loop"
    /\ MayStep(r)
    /\ IF companies[r] = <<>>
       THEN /\ pc' = [pc EXCEPT ![r] = "done"]
            /\ orch_session' = [orch_session EXCEPT ![r] = "closed"]
            /\ UNCHANGED <<companies, current, scanned, browser, open_pages, session>>
       ELSE /\ pc' = [pc EXCEPT ![r] = "open"]
            /\ current' = [current EXCEPT ![r] = Head(companies[r])]
            /\ scanned' = [scanned EXCEPT ![r] = Append(@, Head(companies[r]))]
            /\ companies' = [companies EXCEPT ![r] = Tail(@)]
            /\ browser' = [browser EXCEPT ![r] = "none"]
            /\ open_pages' = [open_pages EXCEPT ![r] = 0]
            /\ session' = [session EXCEPT ![r] = "none"]
            /\ UNCHANGED orch_session
    /\ UNCHANGED <<envVars, pureVars, company, client, jobs, user_profile, job_links, link,
                   pending, flushed, new_jobs, skipped, persisted>>

\* ------------------------------------------------------------ scrape_company
\* p.chromium.launch, browser.new_context, context.new_page: outside the
\* try, so a failure of any of them leaves scrape_company and the run.
OpenBrowser(r) ==
    /\ pc[r] = "open"
    /\ MayStep(r)
    /\ \E outcome \in {"ok", "launch", "new_context", "new_page"} :
         IF outcome = "ok"
         THEN /\ browser' = [browser EXCEPT ![r] = "open"]
              /\ pc' = [pc EXCEPT ![r] = "load"]
              /\ UNCHANGED orch_session
         ELSE /\ browser' = [browser EXCEPT ![r] =
                     IF outcome = "launch" THEN "none" ELSE "unclosed"]
              /\ Escapes(r)
    /\ UNCHANGED <<envVars, pureVars, company, client, jobs, companies, current, scanned, open_pages,
                   session, user_profile, job_links, link, pending, flushed,
                   new_jobs, skipped, persisted>>

\* A navigation failure that ends the run.
NavigationFailed_fatal(r) ==
    /\ pc' = [pc EXCEPT ![r] = "crashed"]
    /\ UNCHANGED <<session, user_profile, job_links, new_jobs, skipped>>

\* page.goto or wait_for_load_state (or page.evaluate) raises: the outer
\* except takes it, nothing of the scan exists yet.
NavigationFailed(r) ==
    /\ pc' = [pc EXCEPT ![r] = "close"]
    /\ UNCHANGED <<session, user_profile, job_links, new_jobs, skipped>>

\* page.goto, wait_for_load_state, page.evaluate; then Session(engine), the
\* profile, new_jobs = [].  A failure goes to the outer except.
LoadPage(r) ==
    /\ pc[r] = "load"
    /\ MayStep(r)
    /\ \/ NavigationFailed(r)
       \/ \E dom \in Shows(web[current[r]]) :
            /\ job_links' = [job_links EXCEPT ![r] = JsFilter(dom)]
            /\ session' = [session EXCEPT ![r] = "open"]
            /\ user_profile' = [user_profile EXCEPT ![r] =
                   IF profile THEN "profile" ELSE "empty"]
            /\ new_jobs' = [new_jobs EXCEPT ![r] = <<>>]
            /\ skipped' = [skipped EXCEPT ![r] = {}]
            /\ pc' = [pc EXCEPT ![r] = "link"]
    /\ UNCHANGED <<envVars, pureVars, company, client, jobs, orch_session, companies, current, scanned,
                   browser, open_pages, link, pending, flushed, persisted>>

\* A failed flush that leaves the rows inserted so far in the table.
FlushFailed_keeps(r) ==
    /\ jobs' = InsertRows(jobs, flushed[r])
    /\ persisted' = [persisted EXCEPT ![r] = @ \cup Urls(flushed[r])]
    /\ pending' = [pending EXCEPT ![r] = <<>>]
    /\ flushed' = [flushed EXCEPT ![r] = <<>>]
    /\ pc' = [pc EXCEPT ![r] = "close"]

\* The outer except after a failed flush: SQLAlchemy has rolled the
\* transaction back; what the session held is gone.
FlushFailed(r) ==
    /\ pending' = [pending EXCEPT ![r] = <<>>]
    /\ flushed' = [flushed EXCEPT ![r] = <<>>]
    /\ pc' = [pc EXCEPT ![r] = "close"]
    /\ UNCHANGED <<jobs, persisted>>

\* One turn of `for link in job_links`: the heuristic, then the dedup
\* lookup (which flushes the pending rows first), up to the await of
\* context.new_page() for a new link.
NextLink(r) ==
    /\ pc[r] = "link"
    /\ MayStep(r)
    /\ IF job_links[r] = <<>>
       THEN /\ pc' = [pc EXCEPT ![r] = "commit"]
            /\ UNCHANGED <<job_links, link, pending, flushed, jobs, persisted>>
       ELSE LET l == Head(job_links[r])
                o == FlushOutcome(r)
            IN  /\ job_links' = [job_links EXCEPT ![r] = Tail(@)]
                /\ IF ~LooksLikeJob(l)
                   THEN UNCHANGED <<pc, link, pending, flushed, jobs, persisted>>
                   ELSE /\ o # "block"
                        /\ IF o # "ok"
                           THEN FlushFailed(r) /\ UNCHANGED link
                           ELSE /\ flushed' = [flushed EXCEPT ![r] = @ \o pending[r]]
                                /\ pending' = [pending EXCEPT ![r] = <<>>]
                                /\ UNCHANGED <<jobs, persisted>>
                                /\ IF FindJobByUrl(SeenAfterFlush(r), l.href)
                                   THEN UNCHANGED <<pc, link>>
                                   ELSE /\ link' = [link EXCEPT ![r] = l]
                                        /\ pc' = [pc EXCEPT ![r] = "fetch"]
    /\ UNCHANGED <<envVars, pureVars, company, client, orch_session, companies, current,
                   scanned, browser, open_pages, session, user_profile, new_jobs, skipped>>

\* job_page = new_page(); goto; evaluate; close.  Each can raise; a page
\* that was opened is closed only when all of them succeeded.
FetchDetail(r) ==
    /\ pc[r] = "fetch"
    /\ MayStep(r)
    /\ \E outcome \in {"ok", "new_page", "goto", "evaluate", "close"} :
         /\ open_pages' = [open_pages EXCEPT ![r] =
                IF outcome \in {"ok", "new_page"} THEN @ ELSE @ + 1]
         /\ IF outcome = "ok"
            THEN /\ pc' = [pc EXCEPT ![r] = "analyze"]
                 /\ UNCHANGED <<skipped, link>>
            ELSE SkipLink(r, "fetch")
    /\ UNCHANGED <<envVars, pureVars, company, client, jobs, orch_session, companies, current, scanned,
                   browser, session, user_profile, job_links, pending, flushed,
                   new_jobs, persisted>>

\* match_result = await analyze_job_match(...); job = JobListing(...);
\* session.add(job); new_jobs.append(job).
Analyze(r) ==
    /\ pc[r] = "analyze"
    /\ MayStep(r)
    /\ client' = get_client(client, api_key)
    /\ \E reply \in IF client' = None THEN {NotJson} ELSE ModelReplies :
         LET match_result == analyze_job_match(client', reply)
         IN  IF match_result.t # "obj"
             THEN SkipLink(r, "analyze") /\ UNCHANGED <<pending, new_jobs>>
             ELSE /\ pending' = [pending EXCEPT ![r] =
                        Append(@, JobListing(link[r], current[r], PageText, match_result))]
                  /\ new_jobs' = [new_jobs EXCEPT ![r] = Append(@, link[r].href)]
                  /\ link' = [link EXCEPT ![r] = NoLink]
                  /\ pc' = [pc EXCEPT ![r] = "link"]
                  /\ UNCHANGED skipped
    /\ UNCHANGED <<envVars, pureVars, company, jobs, orch_session, companies, current, scanned, browser,
                   open_pages, session, user_profile, job_links, flushed, persisted>>

\* session.add(company) raises InvalidRequestError: the Company object is
\* attached to the caller's session, which is still open.
AttachedElsewhere(r) == orch_session[r] = "open"

\* session.commit(); company.last_scraped_at = now; session.add(company);
\* session.commit(); session.close().  When session.add(company) raises, the
\* listings are committed already, and the company row and the session are
\* left as they are.
Commit(r) ==
    /\ pc[r] = "commit"
    /\ MayStep(r)
    /\ LET o == FlushOutcome(r)
       IN  /\ o # "block"
           /\ IF o # "ok"
              THEN FlushFailed(r) /\ UNCHANGED <<session, company>>
              ELSE /\ jobs' = InsertRows(jobs, flushed[r] \o pending[r])
                   /\ persisted' = [persisted EXCEPT ![r] =
                          @ \cup Urls(flushed[r]) \cup Urls(pending[r])]
                   /\ pending' = [pending EXCEPT ![r] = <<>>]
                   /\ flushed' = [flushed EXCEPT ![r] = <<>>]
                   /\ IF AttachedElsewhere(r)
                      THEN UNCHANGED <<session, company>>
                      ELSE /\ company' = [company EXCEPT
                                  ![current[r]].last_scraped_at = @ + 1]
                           /\ session' = [session EXCEPT ![r] = "closed"]
                   /\ pc' = [pc EXCEPT ![r] = "close"]
    /\ UNCHANGED <<envVars, pureVars, client, orch_session, companies, current, scanned,
                   browser, open_pages, user_profile, job_links, link, new_jobs,
                   skipped>>

\* finally: await browser.close(); scrape_company returns to the loop.  A
\* close that raises leaves scrape_company and the run.
CloseBrowser(r) ==
    /\ pc[r] = "close"
    /\ MayStep(r)
    /\ \/ /\ browser' = [browser EXCEPT ![r] = "closed"]
          /\ pc' = [pc EXCEPT ![r] = "loop"]
          /\ UNCHANGED orch_session
       \/ /\ browser' = [browser EXCEPT ![r] = "unclosed"]
          /\ Escapes(r)
    /\ Returns(r)
    /\ UNCHANGED <<envVars, pureVars, company, client, jobs, companies, current, scanned, open_pages,
                   session, pending, flushed, persisted>>

Next ==
    \E r \in Runs :
        \/ StartRun(r)
        \/ NextCompany(r)
        \/ OpenBrowser(r)
        \/ LoadPage(r)
        \/ NextLink(r)
        \/ FetchDetail(r)
        \/ Analyze(r)
        \/ Commit(r)
        \/ CloseBrowser(r)

Spec == Init /\ [][Next]_vars
SpecRescan == InitRescan /\ [][Next]_vars
SpecOverlap == InitOverlap /\ [][Next]_vars
\* Every awaited browser, model and store call eventually returns or raises,
\* and the event loop runs a coroutine that can run.
SpecFair == Init /\ [][Next]_vars /\ WF_vars(Next)
SpecOverlapFair == InitOverlap /\ [][Next]_vars /\ WF_vars(Next)

\* ------------------------------------------------ the pure functions alone
\* analyze_job_match on one outcome of the model call.
InitAnalyze ==
    /\ backend = "postgresql"
    /\ api_key \in BOOLEAN
    /\ profile = TRUE
    /\ company = [c \in Companies |-> [is_active |-> TRUE, last_scraped_at |-> 0]]
    /\ scan_now = "never"
    /\ web = [c \in Companies |-> Changing]
    /\ InitRuns
    /\ probe \in ProbeReplies
    /\ answer = <<>>

ApplyAnalyze ==
    /\ answer = <<>>
    /\ client' = get_client(client, api_key)
    /\ answer' = <<analyze_job_match(client', probe)>>
    /\ UNCHANGED <<envVars, probe, company, jobs, pc, orch_session, companies, current, scanned,
                   scanVars, persisted>>

SpecAnalyze == InitAnalyze /\ [][ApplyAnalyze]_vars

\* The anchors probed by the filter: an href of 0..MaxPad x's, a keyword,
\* 0..MaxPad x's, and a text of 0..MaxText x's.
ProbeKeywords ==
    {<<>>, S_job, S_career, <<"J", "o", "b">>, <<"j", "o">>, <<"c", "a", "r", "e", "e">>}
ProbeAnchors ==
    {Anchor(Pad(t), Pad(a) \o kw \o Pad(b)) :
        t \in 0..MaxText, a \in 0..MaxPad, b \in 0..MaxPad, kw \in ProbeKeywords}

\* The extraction and the heuristic on a page with one anchor.
InitExtract ==
    /\ backend = "postgresql"
    /\ api_key = TRUE
    /\ profile = TRUE
    /\ company = [c \in Companies |-> [is_active |-> TRUE, last_scraped_at |-> 0]]
    /\ scan_now = "never"
    /\ web = [c \in Companies |-> Changing]
    /\ InitRuns
    /\ probe \in ProbeAnchors
    /\ answer = <<>>

ApplyExtract ==
    /\ answer = <<>>
    /\ answer' = <<Candidates(<<probe>>)>>
    /\ UNCHANGED <<envVars, probe, company, client, jobs, pc, orch_session, companies, current, scanned,
                   scanVars, persisted>>

SpecExtract == InitExtract /\ [][ApplyExtract]_vars

\* ----------------------------------------------------------- GET /verify
\* The fields of class Settings; reading any other attribute of `settings`
\* raises AttributeError.
SettingsFields ==
    {"DATABASE_URL", "OPENROUTER_API_KEY", "OPENROUTER_MODEL", "EMAIL_SMTP_SERVER",
     "EMAIL_PORT", "EMAIL_USERNAME", "EMAIL_PASSWORD"}
HasSetting(name) == name \in SettingsFields

\* The status dict of verify_system when checks 1..3 gave `configured`,
\* `working` and `database`.
Report(configured, working, database) ==
    [ raised |-> FALSE,
      overall |-> IF configured /\ working /\ database THEN "healthy" ELSE "unhealthy",
      checks |-> [ api_key_configured |-> configured,
                   gemini_api_working |-> working,
                   database |-> database ] ]

\* verify_system(): check 1 reads settings.GEMINI_API_KEY outside any try.
\* Were the attribute there: check 2 calls client.aio.models..., which the
\* AsyncOpenAI client of get_client() does not have (AttributeError, caught:
\* not working); check 3 runs a SELECT on the store.
verify_system(key, db_up) ==
    IF ~HasSetting("GEMINI_API_KEY")
    THEN [raised |-> TRUE, error |-> "AttributeError"]
    ELSE Report(key, FALSE, db_up)

\* The requests probed: with the store reachable or not.
InitVerify ==
    /\ backend \in Backends
    /\ api_key \in BOOLEAN
    /\ profile \in BOOLEAN
    /\ company \in [Companies -> [is_active : BOOLEAN, last_scraped_at : {0}]]
    /\ scan_now = "never"
    /\ web = [c \in Companies |-> Changing]
    /\ InitRuns
    /\ probe \in [db_up : BOOLEAN]
    /\ answer = <<>>

ApplyVerify ==
    /\ answer = <<>>
    /\ answer' = <<verify_system(api_key, probe.db_up)>>
    /\ UNCHANGED <<envVars, probe, company, client, jobs, pc, orch_session, companies,
                   current, scanned, scanVars, persisted>>

SpecVerify == InitVerify /\ [][ApplyVerify]_vars

\* ================================================================ properties
Hrefs(links) == {links[i].href : i \in DOMAIN links}
Staged(r) == {new_jobs[r][i] : i \in DOMAIN new_jobs[r]}
\* The links of run r's current scan whose detail fetch succeeded.
Fetched(r) == Staged(r) \cup {s.url : s \in {t \in skipped[r] : t.at = "analyze"}}

\* {match_score: 0, reasoning: "Error:...", missing_skills: []}
IsErrorFallback(res) ==
    /\ res.t = "obj"
    /\ res.v.match_score.t = "int" /\ res.v.match_score.v = 0
    /\ res.v.missing_skills.t = "list" /\ res.v.missing_skills.v = <<>>
    /\ res.v.reasoning.t = "str" /\ StartsWith(res.v.reasoning.v, S_ErrorColon)

\* JSON that is not the structured output the prompt asks for.
Malformed(j) ==
    IF j.t # "obj" THEN TRUE
    ELSE \/ j.v.match_score.t # "int"
         \/ j.v.reasoning.t # "str"
         \/ j.v.missing_skills.t # "list"
         \/ \E i \in DOMAIN j.v.missing_skills.v : j.v.missing_skills.v[i].t # "str"

\* C1: in run_daily_scan a failure of the scan of one company never leaves
\* the loop: no run ends by an exception, and a run that ends has been
\* through every company of its list.
C1_FailureContained ==
    \A r \in Runs :
        /\ pc[r] # "crashed"
        /\ pc[r] = "done" => companies[r] = <<>>

\* C2: in every reachable state of the store, overlapping runs on the same
\* company included, no two JobListing rows have the same url.
C2_UrlUnique ==
    \A a \in BagToSet(jobs) :
        /\ CopiesIn(a, jobs) = 1
        /\ \A b \in BagToSet(jobs) : a.url = b.url => a = b

\* A run is about to insert a url that the other run committed after the
\* lookup, and the unique constraint refuses the insert.
C2_Witness ==
    \E r \in Runs :
        /\ pc[r] \in {"link", "commit"}
        /\ Urls(pending[r]) \cap JobUrls # {}
        /\ FlushOutcome(r) = "integrity"

\* C3 (as stated): when scrape_company runs twice in succession on a page
\* that shows the same anchors on both visits (the first run read the page
\* and returned), the second run adds no row.
C3_SecondRunAddsNoRow ==
    pc["scheduled"] = "done" /\ session["scheduled"] # "none"
        => persisted["manual"] = {}

\* C3 (amended): on a page that shows the same anchors on both visits, the
\* second run adds no row for a url the first run persisted, and when the
\* first run persisted every candidate of the page the second run stages
\* and adds nothing.
C3_Rescan ==
    /\ persisted["manual"] \cap persisted["scheduled"] = {}
    /\ Hrefs(Candidates(web[1].dom)) \subseteq persisted["scheduled"]
         => /\ persisted["manual"] = {}
            /\ new_jobs["manual"] = <<>>
            /\ pending["manual"] = <<>>

\* The second scan has gone through a page all of whose candidates the
\* first run persisted.
C3_Witness ==
    /\ pc["manual"] = "close"
    /\ session["manual"] = "open"
    /\ Hrefs(Candidates(web[1].dom)) # {}
    /\ Hrefs(Candidates(web[1].dom)) \subseteq persisted["scheduled"]

\* C4: in one company scan, an exception while processing a link skips that
\* link only: when the scan is over, every other new candidate whose own
\* processing succeeded is persisted.
C4_LinkFaultIsolated ==
    \A r \in Runs :
        pc[r] = "close" /\ skipped[r] # {} => Staged(r) \subseteq JobUrls

\* C5: in a company scan, every new candidate whose detail fetch succeeded
\* is persisted when the scan is over, whatever the model call did.
C5_ScoringNeverBlocks ==
    \A r \in Runs :
        pc[r] = "close" => Fetched(r) \subseteq JobUrls

\* C6: when the model call raises or its content is not parseable JSON,
\* analyze_job_match returns match_score 0, missing_skills [] and a
\* reasoning that starts with "Error:".
C6_AnalyzerFallback ==
    answer # <<>> /\ client # None /\ probe.kind \in {"raise", "text"}
        => IsErrorFallback(answer[1])

\* The content was not JSON and the fallback came back.
C6_Witness ==
    /\ answer # <<>>
    /\ client # None
    /\ probe.kind = "text"
    /\ IsErrorFallback(answer[1])

\* C7: when the model's content is parseable JSON that is malformed as
\* structured output, analyze_job_match returns the failure fallback and not
\* the malformed value.
C7_MalformedGivesFallback ==
    answer # <<>> /\ client # None /\ probe.kind = "json" /\ Malformed(probe.value)
        => IsErrorFallback(answer[1])

\* C8 (as stated): without a credential analyze_job_match returns the
\* failure fallback of a failed call, reasoning "Error: <cause>".
C8_KeyMissingIsErrorFallback ==
    answer # <<>> /\ ~api_key => IsErrorFallback(answer[1])

\* C8 (amended): without a credential analyze_job_match makes no client and
\* no model call, and returns match_score 0, missing_skills [] and the
\* reasoning "API Key missing", whatever the model would have answered.
C8_KeyMissing ==
    answer # <<>> /\ ~api_key
        => /\ client = None
           /\ answer[1].t = "obj"
           /\ answer[1].v.match_score.t = "int" /\ answer[1].v.match_score.v = 0
           /\ answer[1].v.missing_skills.t = "list"
           /\ answer[1].v.missing_skills.v = <<>>
           /\ answer[1].v.reasoning.t = "str"
           /\ answer[1].v.reasoning.v = S_ApiKeyMissing

\* No credential, a model that would have answered JSON, and the sentinel
\* result came back.
C8_Witness ==
    /\ answer # <<>>
    /\ ~api_key
    /\ probe.kind = "json"
    /\ answer[1].v.reasoning.v = S_ApiKeyMissing

\* C9: the match_score of every persisted JobListing is absent or an integer
\* from 0 to 100.
C9_ScoreBound ==
    \A row \in BagToSet(jobs) :
        \/ row.match_score.t = "null"
        \/ row.match_score.t = "int" /\ row.match_score.v \in 0..100

\* C10: an anchor goes on to deduplication iff len(href) > 10 and (href
\* contains "job" or href contains "career" or len(text) > 10); an href of
\* at most 10 characters is always discarded, an href of more than 10 that
\* contains "job" is always kept.
C10_ExtractorFilter ==
    answer # <<>> =>
        LET kept == answer[1] = <<probe>>
        IN  /\ answer[1] \in {<<>>, <<probe>>}
            /\ kept <=> /\ Len(probe.href) > 10
                        /\ \/ Contains(probe.href, S_job)
                           \/ Contains(probe.href, S_career)
                           \/ Len(probe.text) > 10
            /\ Len(probe.href) <= 10 => ~kept
            /\ Len(probe.href) > 10 /\ Contains(probe.href, S_job) => kept

\* An href of 11 characters with "job" and an empty text was kept.
C10_Witness ==
    /\ answer # <<>>
    /\ answer[1] = <<probe>>
    /\ Len(probe.href) = 11
    /\ Contains(probe.href, S_job)
    /\ probe.text = <<>>

\* Run r's current scan read its page, went through every link and its
\* commit of the listings succeeded.
ScanCommitted(r) ==
    /\ pc[r] = "close"
    /\ session[r] # "none"
    /\ job_links[r] = <<>>
    /\ Staged(r) \subseteq JobUrls

\* C11: after a company scan that loaded its page and processed all
\* candidates without a company-level failure, the company's last_scraped_at
\* read back from the store is newer than before the scan (0: never), also
\* when the scan was invoked from run_daily_scan.
C11_TimestampAdvances ==
    \A r \in Runs :
        ScanCommitted(r) => company[current[r]].last_scraped_at > 0

\* C12: a failure before extraction (navigation, network-idle) aborts that
\* company's scan only: the step goes to the cleanup and not out of the run,
\* no JobListing is created and last_scraped_at is unchanged, there and in
\* the cleanup, and when browser.close() has returned the run is back in
\* its loop.
C12_NavigationFailureContained ==
    [][\A r \in Runs :
         /\ pc[r] = "load" /\ pc'[r] # "load" /\ session'[r] = "none"
              => /\ pc'[r] = "close"
                 /\ jobs' = jobs /\ persisted' = persisted /\ company' = company
         /\ pc[r] = "close" /\ pc'[r] # "close" /\ session[r] = "none"
              => /\ jobs' = jobs /\ persisted' = persisted /\ company' = company
                 /\ browser'[r] = "closed" => pc'[r] = "loop"]_vars

\* A scan was aborted before extraction while companies remain in the list.
C12_Witness ==
    \E r \in Runs :
        /\ pc[r] = "close"
        /\ session[r] = "none"
        /\ companies[r] # <<>>

\* C13: every detail page opened for a candidate is closed before the scan
\* moves on, on every outcome of the link: between two links no detail page
\* of the scan is open.
C13_DetailPagesClosed ==
    \A r \in Runs : open_pages[r] = 0

C15_OneBrowserPerRun ==
    \A r \in Runs :
        /\ pc[r] = "loop" => browser[r] \in {"none", "closed"}
        /\ pc[r] \in {"open", "load", "link", "fetch", "analyze", "commit", "close"}
             => scanned[r] # <<>> /\ current[r] = scanned[r][Len(scanned[r])]

\* The run is between two scans: the browser of the first is closed and the
\* next company waits.
C15_Witness ==
    \E r \in Runs :
        /\ pc[r] = "loop"
        /\ browser[r] = "closed"
        /\ companies[r] # <<>>

\* C19: one run_daily_scan calls the company scan exactly once for each
\* company that was active when the run read the list, and for no other:
\* when the run has ended, the companies scanned are the active ones.
C19_EachActiveCompanyOnce ==
    \A r \in Runs :
        pc[r] \in {"done", "crashed"} => scanned[r] = ActiveCompanies

\* C16: a company scan never changes or deletes a JobListing that existed
\* before: every row of the table is in the table unchanged after every
\* step, whatever the page or the model return for its url.
C16_ExistingRowsKept ==
    [][\A row \in BagToSet(jobs) : CopiesIn(row, jobs') = CopiesIn(row, jobs)]_vars

\* The second scan went through a list with a candidate that is already
\* persisted, and is about to commit.
C16_Witness ==
    /\ pc["manual"] = "commit"
    /\ Hrefs(Candidates(web[1].dom)) \cap JobUrls # {}

\* C17: whichever companies or links fail, a started run_daily_scan
\* eventually reaches its end ("Daily Scan Complete") without raising.
C17_RunCompletes ==
    \A r \in Runs : (pc[r] = "loop") ~> (pc[r] = "done")

\* C18: when the store holds no UserProfile the scan goes on with an empty
\* profile and the analysis of every listing it persists degrades to
\* match_score = 0.
C18_NoProfileScoresZero ==
    ~profile =>
        \A row \in BagToSet(jobs) :
            row.match_score.t = "int" /\ row.match_score.v = 0

\* C20: GET /verify always returns a report whose three checks are booleans
\* and whose overall is "healthy" iff all three are true; without a model
\* credential it returns such a report with overall "unhealthy".
C20_VerifyReports ==
    answer # <<>> =>
        /\ ~answer[1].raised
        /\ answer[1].checks \in [api_key_configured : BOOLEAN,
                                 gemini_api_working : BOOLEAN, database : BOOLEAN]
        /\ answer[1].overall = "healthy"
             <=> /\ answer[1].checks.api_key_configured
                 /\ answer[1].checks.gemini_api_working
                 /\ answer[1].checks.database
        /\ ~api_key => answer[1].overall = "unhealthy"

\* C21: within a scan the dedup lookup comes before any detail fetch: a
\* detail page is opened only by the lookup step, for a url that is not
\* persisted; the model is called for a link only after the detail fetch of
\* that same link succeeded; a listing is staged only by the analysis, for
\* the link that was analyzed.
C21_LookupFetchAnalyze ==
    [][\A r \in Runs :
         /\ pc'[r] = "fetch" /\ pc[r] # "fetch"
              => pc[r] = "link" /\ link'[r].href \notin JobUrls
         /\ pc'[r] = "analyze" /\ pc[r] # "analyze"
              => pc[r] = "fetch" /\ link'[r] = link[r]
         /\ new_jobs'[r] # new_jobs[r] /\ new_jobs'[r] # <<>>
              => pc[r] = "analyze" /\ new_jobs'[r] = Append(new_jobs[r], link[r].href)]_vars

\* The second scan of a page with a persisted candidate has its model call
\* ahead for another link, the last of the list.
C21_Witness ==
    /\ pc["manual"] = "analyze"
    /\ job_links["manual"] = <<>>
    /\ Hrefs(Candidates(web[1].dom)) \cap persisted["scheduled"] # {}

\* C22: the listings staged by a scan are committed only when all
\* candidates have been processed, and as one batch: rows of the run appear
\* only in the commit step with no link left, until then nothing staged is
\* committed, after it all of them or none; a scan aborted while iterating
\* the candidates persists none of them.
C22_BatchCommit ==
    [][\A r \in Runs :
         /\ persisted'[r] # persisted[r] => pc[r] = "commit" /\ job_links[r] = <<>>
         /\ pc'[r] \in {"link", "fetch", "analyze", "commit"}
              => Staged(r)' \cap persisted'[r] = {}
         /\ pc'[r] = "close"
              => \/ Staged(r)' \subseteq persisted'[r]
                 \/ Staged(r)' \cap persisted'[r] = {}
         /\ pc[r] = "link" /\ pc'[r] = "close"
              => jobs' = jobs /\ Staged(r)' \cap JobUrls' = {}]_vars

\* The first scan was aborted at a dedup lookup (a candidate of the page was
\* neither staged nor skipped nor persisted) with listings staged, and none
\* of them is in the store.
C22_Witness ==
    /\ pc["scheduled"] = "close"
    /\ Staged("scheduled") # {}
    /\ Staged("scheduled") \cap JobUrls = {}
    /\ \E u \in Hrefs(Candidates(web[1].dom)) :
          /\ u \notin Staged("scheduled")
          /\ u \notin {s.url : s \in skipped["scheduled"]}

\* The hrefs that come more than once among the candidates of a page.
DuplicatedHrefs(dom) ==
    LET c == Candidates(dom)
    IN  {c[i].href : i \in {k \in DOMAIN c : \E j \in DOMAIN c : j # k /\ c[j].href = c[k].href}}

\* C23 (as stated): when a page lists the same new href more than once, a
\* scan that went through the whole list and whose commit succeeded has
\* processed that href once and has persisted a JobListing for it.
C23_DuplicateProcessedOnce ==
    ( /\ pc["scheduled"] = "close"
      /\ session["scheduled"] # "none"
      /\ job_links["scheduled"] = <<>>
      /\ Staged("scheduled") \subseteq JobUrls
      /\ \A s \in skipped["scheduled"] : s.at = "fetch" )
        => \A u \in DuplicatedHrefs(web[1].dom) :
              /\ u \in JobUrls
              /\ u \notin {s.url : s \in skipped["scheduled"]}

\* C23 (amended): once a scan has staged a listing for an href, every later
\* occurrence of the href in the list is skipped by the dedup lookup: the
\* scan stages at most one listing per href, does not fetch an href it has
\* staged, and its flushes never fail on the unique url because of its own
\* rows.
C23_DuplicateStagedOnce ==
    \A r \in Runs :
        /\ \A i, j \in DOMAIN new_jobs[r] : new_jobs[r][i] = new_jobs[r][j] => i = j
        /\ pc[r] \in {"fetch", "analyze"} => link[r].href \notin Staged(r)
        /\ pc[r] \in {"link", "commit"} => FlushOutcome(r) # "integrity"

\* The page lists the same new href twice; the scan staged it once, skipped
\* the second occurrence and is about to commit.
C23_Witness ==
    /\ pc["scheduled"] = "commit"
    /\ web[1].dom = <<JobAnchor(1), JobAnchor(1)>>
    /\ new_jobs["scheduled"] = <<JobAnchor(1).href>>
    /\ skipped["scheduled"] = {}

\* C24: when a manual run overlaps a scheduled run on the same company with
\* the same new urls, both runs terminate: a started run eventually ends,
\* whatever the interleaving of the two check-then-insert sequences.
C24_OverlapTerminates ==
    \A r \in Runs : (pc[r] = "loop") ~> (pc[r] \in {"done", "crashed"})

\* C25: no lost discovery under overlap: when both overlapping scans are
\* over and one of them staged a url that the other persisted (a conflict
\* on the unique url), every url it staged, whose detail fetch and analysis
\* succeeded, has a persisted JobListing.
C25_NoLostDiscovery ==
    \A r \in Runs : \A o \in Runs \ {r} :
        ( /\ pc[r] = "close"
          /\ pc[o] \in {"done", "crashed"}
          /\ Staged(r) \cap persisted[o] # {} )
            => Staged(r) \subseteq JobUrls

\* C26: the store session scrape_company opened is closed on every exit
\* path: once scrape_company has returned or raised, its session is not
\* open.
C26_SessionClosed ==
    \A r \in Runs :
        pc[r] \in {"loop", "done", "crashed"} => session[r] # "open"

====
